---- MODULE Spec2Model ----
(***************************************************************************)
(* The advancing front of TQMesh (src/src/algorithm/Front.h): a list of    *)
(* edges built from a domain's boundaries, refined edge by edge according  *)
(* to the domain's size function, with a movable base edge.                *)
(*                                                                         *)
(* Coordinates, lengths and size-function values are exact rationals       *)
(* <<numerator, denominator>>; the code's doubles are modelled without     *)
(* rounding.  All boundary edges are axis-aligned, so the Euclidean        *)
(* length of a vector along an edge is |dx| + |dy| exactly.                *)
(*                                                                         *)
(* Intermediate values of the code's functions are passed on as operator   *)
(* parameters: each local variable of the code is a parameter of the       *)
(* operator that continues the function body.                              *)
(***************************************************************************)
EXTENDS Integers, Sequences, FiniteSets, TLC

\* rows of set_base_next calls are counted on fronts of up to MaxRun edges,
\* up to MaxRun calls
MaxRun == 6

(* ------------------------------------------------------------------ *)
(* Exact rational arithmetic (the code's double)                        *)
(* ------------------------------------------------------------------ *)
Abs(x) == IF x < 0 THEN -x ELSE x

RECURSIVE GCD(_, _)
GCD(a, b) == IF b = 0 THEN a ELSE GCD(b, a % b)

Reduced(n, d, g) == << n \div g, d \div g >>

\* the fraction n/d in lowest terms, with a positive denominator
Rat(n, d) ==
  IF d = 1 THEN << n, 1 >>
  ELSE IF d < 0 THEN Reduced(-n, -d, GCD(Abs(n), -d))
  ELSE Reduced(n, d, GCD(Abs(n), d))

R(n)       == << n, 1 >>
RAdd(p, q) == Rat(p[1] * q[2] + q[1] * p[2], p[2] * q[2])
RSub(p, q) == Rat(p[1] * q[2] - q[1] * p[2], p[2] * q[2])
RMul(p, q) == Rat(p[1] * q[1], p[2] * q[2])
RDiv(p, q) == Rat(p[1] * q[2], p[2] * q[1])
RLt(p, q)  == p[1] * q[2] < q[1] * p[2]
RAbs(p)    == << Abs(p[1]), p[2] >>
RHalf      == << 1, 2 >>

(* ------------------------------------------------------------------ *)
(* Vec2d                                                                *)
(* ------------------------------------------------------------------ *)
Pt(x, y)      == << R(x), R(y) >>
VAdd(a, b)    == << RAdd(a[1], b[1]), RAdd(a[2], b[2]) >>
VSub(a, b)    == << RSub(a[1], b[1]), RSub(a[2], b[2]) >>
VScale(r, a)  == << RMul(r, a[1]), RMul(r, a[2]) >>
VNeg(a)       == VScale(R(-1), a)
VLength(a)    == RAdd(RAbs(a[1]), RAbs(a[2]))

\* a sequence given as a function, as a tuple
AsSeq(f)      == SubSeq(f, 1, Len(f))
Reverse(s)    == AsSeq([ i \in 1..Len(s) |-> s[Len(s) + 1 - i] ])

(* ------------------------------------------------------------------ *)
(* Domain::size_function.  A size function is a record                  *)
(* [lo, hi, rin, rout]: the value is rin in the open band lo < x < hi   *)
(* and rout elsewhere; rin = rout gives a constant size function.       *)
(* ------------------------------------------------------------------ *)
Const(c)         == [lo |-> 0, hi |-> 0, rin |-> c, rout |-> c]
Band(l, h, i, o) == [lo |-> l, hi |-> h, rin |-> i, rout |-> o]
IsConstant(sf)   == sf.rin = sf.rout \/ ~(sf.lo < sf.hi)

size_function(sf, p) ==
  IF RLt(R(sf.lo), p[1]) /\ RLt(p[1], R(sf.hi)) THEN R(sf.rin) ELSE R(sf.rout)

(* ------------------------------------------------------------------ *)
(* Vertices (the vertex store) and edges                                *)
(* A vertex is [xy, is_fixed, on_boundary, on_front]; the store maps    *)
(* the identity of a vertex (1, 2, ...) to it.  An edge is              *)
(* [id, v1, v2, marker] with v1, v2 vertex identities; the edge         *)
(* container is the sequence of its edges.                              *)
(* ------------------------------------------------------------------ *)
Null == 0

IndexOf(seq, id) == CHOOSE i \in 1..Len(seq) : seq[i].id = id
Ids(seq)         == { seq[i].id : i \in 1..Len(seq) }
IdSeq(seq)       == AsSeq([ i \in 1..Len(seq) |-> seq[i].id ])
InsertBefore(seq, i, x) ==
  SubSeq(seq, 1, i - 1) \o << x >> \o SubSeq(seq, i, Len(seq))

xy(vs, v)       == vs[v].xy
length(vs, e)   == VLength(VSub(xy(vs, e.v2), xy(vs, e.v1)))
tangent(vs, e)  == VScale(RDiv(R(1), length(vs, e)), VSub(xy(vs, e.v2), xy(vs, e.v1)))

\* Vertices::insert(pos, xy, 1.0): a new vertex, of identity Len(vs) + 1
vertices_insert(vs, p) ==
  Append(vs, [xy |-> p, is_fixed |-> FALSE, on_boundary |-> FALSE, on_front |-> FALSE])

is_fixed(vs, v)         == [vs EXCEPT ![v].is_fixed = TRUE]
on_boundary(vs, v1, v2) == [vs EXCEPT ![v1].on_boundary = TRUE, ![v2].on_boundary = TRUE]

\* Front::mark_objects, the hook of add_edge / insert_edge
mark_objects(vs, v1, v2) == [vs EXCEPT ![v1].on_front = TRUE, ![v2].on_front = TRUE]

\* EdgeList::add_edge: a new edge at the end of the container
add_edge(es, id, v1, v2, marker) ==
  Append(es, [id |-> id, v1 |-> v1, v2 |-> v2, marker |-> marker])

\* EdgeList::insert_edge(pos, ...): a new edge in front of the edge at pos
insert_edge(es, pos, id, v1, v2, marker) ==
  InsertBefore(es, IndexOf(es, pos),
               [id |-> id, v1 |-> v1, v2 |-> v2, marker |-> marker])

\* edges_.remove(e)
remove(es, id) == SelectSeq(es, LAMBDA e : e.id # id)

RECURSIVE RSum(_, _)
RSum(f, n) == IF n = 0 THEN R(0) ELSE RAdd(RSum(f, n - 1), f[n])

\* EdgeList::compute_area: signed area enclosed by the edges
Cross(a, b) == RSub(RMul(a[1], b[2]), RMul(b[1], a[2]))
compute_area(vs, es) ==
  RMul(RHalf, RSum([ i \in 1..Len(es) |-> Cross(xy(vs, es[i].v1), xy(vs, es[i].v2)) ],
                   Len(es)))

\* EdgeList::check_orientation for Orientation::NONE
check_orientation(vs, es) == TRUE

(* ------------------------------------------------------------------ *)
(* Front::create_sub_vertex_coords                                      *)
(* ------------------------------------------------------------------ *)
\* Corrector without the factor 0.5 of dxy_c
Corrector_nohalf(c, xy_cur, rho) ==
  VAdd(xy_cur,
       VScale(RAdd(rho, size_function(c.sf, VAdd(xy_cur, VScale(rho, c.tang)))),
              c.tang))

\* predictor and corrector: the next point xy_c from xy_cur, with rho the
\* size function at xy_cur
Corrector(c, xy_cur, rho) ==
  VAdd(xy_cur,
       VScale(RMul(RHalf,
                   RAdd(rho, size_function(c.sf, VAdd(xy_cur, VScale(rho, c.tang))))),
              c.tang))

\* if ( s > s_end ) break
Stop(s, s_end) == RLt(s_end, s)

\* the while(true) loop.  c = [sf, tang, a, len, s_end]
RECURSIVE March(_, _, _)
MarchTest(c, xy_c, xy_new, s) ==
  IF Stop(s, c.s_end)
  THEN [xy_new |-> xy_new, s_last |-> s]
  ELSE March(c, xy_c, xy_new)

MarchStep(c, xy_c, xy_new) ==
  MarchTest(c, xy_c, Append(xy_new, xy_c), RDiv(VLength(VSub(xy_c, c.a)), c.len))

March(c, xy_cur, xy_new) ==
  MarchStep(c, Corrector(c, xy_cur, size_function(c.sf, xy_cur)), xy_new)

\* size function lengths of the vertices, start and ending vertex neglected
SizeLengths(sf, xy_b) ==
  AsSeq([ i \in 1..Len(xy_b) |->
            IF i = 1 \/ i = Len(xy_b) THEN R(0) ELSE size_function(sf, xy_b[i]) ])

\* Distribute without the division of the lengths by their total
Distribute_unnormalised(xy_b, d_cr, rho_i, rho_tot) ==
  AsSeq([ i \in 1..Len(xy_b) |->
            IF i = 1 \/ i = Len(xy_b) THEN xy_b[i]
            ELSE VAdd(xy_b[i], VScale(rho_i[i], d_cr)) ])

\* divide the lengths by the total length and distribute the cropped distance
\* among the new vertices
Distribute(xy_b, d_cr, rho_i, rho_tot) ==
  AsSeq([ i \in 1..Len(xy_b) |->
            IF i = 1 \/ i = Len(xy_b) THEN xy_b[i]
            ELSE VAdd(xy_b[i], VScale(RDiv(rho_i[i], rho_tot), d_cr)) ])

\* the check under #ifndef NDEBUG: distances from xy_new[0] strictly increase
Ordered(pts) ==
  \A i \in 2..Len(pts) :
     RLt(VLength(VSub(pts[i - 1], pts[1])), VLength(VSub(pts[i], pts[1])))

\* if ( !dir ) std::reverse
Oriented(dir, pts) == IF dir THEN pts ELSE Reverse(pts)

Checked(dir, pts)  == [xy_new |-> Oriented(dir, pts), ordered |-> Ordered(pts)]

Weighted(dir, xy_b, d_cr, rho_i) ==
  Checked(dir, Distribute(xy_b, d_cr, rho_i, RSum(rho_i, Len(rho_i))))

Cropped(c, dir, b, m) ==
  Weighted(dir, [m.xy_new EXCEPT ![Len(m.xy_new)] = b],
           VScale(RMul(RSub(R(1), m.s_last), c.len), c.tang),
           SizeLengths(c.sf, [m.xy_new EXCEPT ![Len(m.xy_new)] = b]))

Marched(c, dir, b) == Cropped(c, dir, b, March(c, c.a, << c.a >>))

\* s_end = 1.0 - 0.5 * rho_b / e.length()
SEnd(rho_b, len) == RSub(R(1), RDiv(RMul(RHalf, rho_b), len))

create_sub_vertex_coords(vs, e, dir, rho_1, rho_2, sf) ==
  Marched([sf    |-> sf,
           tang  |-> IF dir THEN tangent(vs, e) ELSE VNeg(tangent(vs, e)),
           a     |-> xy(vs, IF dir THEN e.v1 ELSE e.v2),
           len   |-> length(vs, e),
           s_end |-> SEnd(IF dir THEN rho_2 ELSE rho_1, length(vs, e))],
          dir, xy(vs, IF dir THEN e.v2 ELSE e.v1))

(* ------------------------------------------------------------------ *)
(* Front::create_sub_edges.  st = [es, vs, ne, ...] holds the edge      *)
(* container, the vertex store and the identity of the next new edge.   *)
(* ------------------------------------------------------------------ *)
\* one pass of the for loop: the vertex v_n at p and the edge (v_cur, v_n)
SubEdge(st, e, p, v_cur, v_n) ==
  [st EXCEPT !.vs = on_boundary(mark_objects(is_fixed(vertices_insert(@, p), v_n),
                                             v_cur, v_n),
                                v_cur, v_n),
             !.es = insert_edge(@, e.id, st.ne, v_cur, v_n, e.marker),
             !.ne = @ + 1]

\* ClosingEdge from e.v1() instead of the last new vertex
ClosingEdge_from_v1(st, e, v_cur) ==
  [st EXCEPT !.vs = on_boundary(mark_objects(@, e.v1, e.v2), e.v1, e.v2),
             !.es = insert_edge(@, e.id, st.ne, e.v1, e.v2, e.marker),
             !.ne = @ + 1]

\* the edge after the loop, from the last new vertex to e.v2()
ClosingEdge(st, e, v_cur) ==
  [st EXCEPT !.vs = on_boundary(mark_objects(@, v_cur, e.v2), v_cur, e.v2),
             !.es = insert_edge(@, e.id, st.ne, v_cur, e.v2, e.marker),
             !.ne = @ + 1]

RECURSIVE SubEdgeLoop(_, _, _, _, _)
SubEdgeLoop(st, e, xy_new, i, v_cur) ==
  IF i < Len(xy_new)
  THEN SubEdgeLoop(SubEdge(st, e, xy_new[i], v_cur, Len(st.vs) + 1),
                   e, xy_new, i + 1, Len(st.vs) + 1)
  ELSE ClosingEdge(st, e, v_cur)

create_sub_edges(st, e, xy_new) == SubEdgeLoop(st, e, xy_new, 2, e.v1)

(* ------------------------------------------------------------------ *)
(* Front::refine                                                        *)
(* ------------------------------------------------------------------ *)
\* Subdivides with the test  xy_new.size() < 2
Subdivides_always(xy_new) == ~(Len(xy_new) < 2)

\* the negation of  xy_new.size() < 3  on line 114
Subdivides(xy_new) == ~(Len(xy_new) < 3)

\* NextPos with a second increment: the edge behind the one visited is
\* skipped
NextPos_skip(es, e, i) == IndexOf(es, e.id) + 2

\* the range-for's increment: the position after the edge just visited
NextPos(es, e, i) == IndexOf(es, e.id) + 1

\* The loop over edges_, at position i.  st is extended by
\*   visited  : the edges the loop has visited, in order
\*   marked   : the edges marked for removal
\*   monotone : every check of create_sub_vertex_coords has passed so far
\*   hung     : the loop has met an edge of length zero, whose tangent is
\*              not a number: the while loop never reaches its break
RECURSIVE RefineLoop(_, _, _)
RefineNext(st, e, i, sf) == RefineLoop(st, NextPos(st.es, e, i), sf)

RefineCoords(st, e, i, sf, c) ==
  IF Subdivides(c.xy_new)
  THEN RefineNext(create_sub_edges([st EXCEPT !.visited  = Append(@, e.id),
                                              !.marked   = Append(@, e.id),
                                              !.monotone = @ /\ c.ordered],
                                   e, c.xy_new),
                  e, i, sf)
  ELSE RefineNext([st EXCEPT !.visited  = Append(@, e.id),
                             !.monotone = @ /\ c.ordered],
                  e, i, sf)

RefineEdge(st, e, i, sf, rho_1, rho_2) ==
  IF length(st.vs, e) = R(0)
  THEN [st EXCEPT !.visited = Append(@, e.id), !.hung = TRUE]
  ELSE RefineCoords(st, e, i, sf,
                    create_sub_vertex_coords(st.vs, e, RLt(rho_1, rho_2),
                                             rho_1, rho_2, sf))

RefineLoop(st, i, sf) ==
  IF i > Len(st.es) THEN st
  ELSE RefineEdge(st, st.es[i], i, sf,
                  size_function(sf, xy(st.vs, st.es[i].v1)),
                  size_function(sf, xy(st.vs, st.es[i].v2)))

\* for ( auto e : marked ) edges_.remove( *e )
RECURSIVE RemoveAll(_, _, _)
RemoveAll(es, marked, k) ==
  IF k > Len(marked) THEN es ELSE RemoveAll(remove(es, marked[k]), marked, k + 1)

Refined(n_before, lp, out) ==
  [es |-> out, vs |-> lp.vs, ne |-> lp.ne,
   area     |-> compute_area(lp.vs, out),
   ret      |-> Len(out) - n_before,
   visited  |-> lp.visited,
   loop_end |-> lp.es,
   monotone |-> lp.monotone,
   hung     |-> lp.hung]

Looped(n_before, lp) == Refined(n_before, lp, RemoveAll(lp.es, lp.marked, 1))

refine(es, vs, n_e, sf) ==
  Looped(Len(es),
         RefineLoop([es |-> es, vs |-> vs, ne |-> n_e, visited |-> << >>,
                     marked |-> << >>, monotone |-> TRUE, hung |-> FALSE],
                    1, sf))

(* ------------------------------------------------------------------ *)
(* Front::set_base_first, set_base_next, sort_edges                     *)
(* ------------------------------------------------------------------ *)
set_base_first(es, b) == IF Len(es) < 1 THEN b ELSE es[1].id

\* Advance without the wrap at edges_.end(): the last edge keeps the base
Advance_nowrap(es, i) == IF i + 1 > Len(es) THEN es[i].id ELSE es[i + 1].id

\* std::advance( iter, 1 ) and the wrap to edges_.begin(); i is the position
\* of the base
Advance(es, i) == IF i + 1 > Len(es) THEN es[1].id ELSE es[i + 1].id
set_base_next(es, b) == IF Len(es) < 1 THEN b ELSE Advance(es, IndexOf(es, b))

\* compare with the lambda of the ascending order in both branches
compare_ascending(ascending, a, b) == RLt(a.len, b.len)

\* the two lambdas handed to edges_.sort, on [e, len] records
compare(ascending, a, b) ==
  IF ascending THEN RLt(a.len, b.len) ELSE RLt(b.len, a.len)

\* std::list::sort is stable: x goes behind every element it does not precede
RECURSIVE SortPos(_, _, _, _)
SortPos(ascending, sorted, x, k) ==
  IF k >= 1 /\ compare(ascending, x, sorted[k])
  THEN SortPos(ascending, sorted, x, k - 1)
  ELSE k + 1

RECURSIVE ListSort(_, _, _)
SortInsert(ascending, sorted, x) ==
  InsertBefore(sorted, SortPos(ascending, sorted, x, Len(sorted)), x)

ListSort(ascending, ks, n) ==
  IF n = 0 THEN << >> ELSE SortInsert(ascending, ListSort(ascending, ks, n - 1), ks[n])

Keyed(vs, es) == AsSeq([ i \in 1..Len(es) |-> [e |-> es[i], len |-> length(vs, es[i])] ])
Unkeyed(ks)   == AsSeq([ i \in 1..Len(ks) |-> ks[i].e ])

sort_edges(vs, ascending, es) == Unkeyed(ListSort(ascending, Keyed(vs, es), Len(es)))

(* ------------------------------------------------------------------ *)
(* Domains: boundaries (closed polygons, one vertex list per loop) and  *)
(* a size function.  The exterior boundary runs counter-clockwise, an   *)
(* interior boundary clockwise.                                          *)
(* ------------------------------------------------------------------ *)
Rect(w, h) == << Pt(0, 0), Pt(w, 0), Pt(w, h), Pt(0, h) >>
LShape     == << Pt(0, 0), Pt(5, 0), Pt(5, 1), Pt(2, 1), Pt(2, 3), Pt(0, 3) >>
Hole       == << Pt(1, 1), Pt(1, 2), Pt(2, 2), Pt(2, 1) >>

Coarse == Const(12)
Fine   == Const(2)
Inner  == Band(4, 8, 1, 6)
Outer  == Band(-100, 0, 20, 3)
Steep  == Band(1, 5, 20, 1)

\* the largest width and the largest constant size of the rectangles of Strips
MaxW   == 7
MaxRho == 2

\* every rectangle of width up to MaxW and height rho under the constant
\* size rho, for rho up to MaxRho
Strips ==
  { [loops |-> << Rect(w, rho) >>, sf |-> Const(rho)] :
      w \in 1..MaxW, rho \in 1..MaxRho }

Shapes ==
  { [loops |-> << Rect(10, 10) >>,      sf |-> Fine],
    [loops |-> << Rect(7, 3), Hole >>,  sf |-> Fine],
    [loops |-> << LShape >>,            sf |-> Coarse],
    [loops |-> << Rect(10, 2) >>,       sf |-> Inner],
    [loops |-> << Rect(5, 2) >>,        sf |-> Outer],
    [loops |-> << Rect(6, 2) >>,        sf |-> Steep],
    [loops |-> << >>,                   sf |-> Fine] }

Domains == Strips \cup Shapes

\* the number of vertices of the loops before loop k
RECURSIVE Offset(_, _)
Offset(loops, k) == IF k = 1 THEN 0 ELSE Offset(loops, k - 1) + Len(loops[k - 1])

RECURSIVE BoundaryVertices(_, _)
BoundaryVertices(loops, k) ==
  IF k = 0 THEN << >>
  ELSE BoundaryVertices(loops, k - 1) \o
       [ i \in 1..Len(loops[k]) |->
           [xy |-> loops[k][i], is_fixed |-> FALSE,
            on_boundary |-> FALSE, on_front |-> FALSE] ]

\* the edges of the boundaries, in order; the marker of a boundary edge is
\* its number
RECURSIVE BoundaryEdges(_, _)
BoundaryEdges(loops, k) ==
  IF k = 0 THEN << >>
  ELSE BoundaryEdges(loops, k - 1) \o
       [ i \in 1..Len(loops[k]) |->
           [v1     |-> Offset(loops, k) + i,
            v2     |-> Offset(loops, k) + (i % Len(loops[k])) + 1,
            marker |-> Offset(loops, k) + i] ]

(* ------------------------------------------------------------------ *)
(* State                                                                *)
(* ------------------------------------------------------------------ *)
VARIABLES
  pc,        \* "new": not constructed; "ready"; "aborted": an ASSERT has
             \* fired; "crashed": undefined behaviour has taken the process
  domain,    \* the domain the front is built from
  vertices,  \* the Vertices store
  edges_,    \* EdgeList::edges_
  area_,     \* EdgeList::area_
  base_,     \* Front::base_: the identity of an edge, or Null
  ne,        \* the identity of the next edge to be allocated
  op,        \* the last member function called
  arg,       \* its argument (sort_edges)
  ret,       \* the value returned by the last refine
  visited,   \* the edges the last refine's loop visited, in order
  loop_end,  \* the edge container at the end of that loop, before removal
  monotone,  \* every ordering check of the last refine passed
  again,     \* the last refine directly followed another refine
  run,       \* the number of calls of set_base_next in a row
  run_from   \* the base before the first of them

vars == << pc, domain, vertices, edges_, area_, base_, ne, op, arg, ret,
           visited, loop_end, monotone, again, run, run_from >>

\* base_ points to an edge that exists
Live(b) == b \in Ids(edges_)

Init ==
  /\ pc = "new"
  /\ domain \in Domains
  /\ vertices = BoundaryVertices(domain.loops, Len(domain.loops))
  /\ edges_ = << >>
  /\ area_ = R(0)
  /\ base_ = Null
  /\ ne = 1
  /\ op = "none"
  /\ arg = FALSE
  /\ ret = 0
  /\ visited = << >>
  /\ loop_end = << >>
  /\ monotone = TRUE
  /\ again = FALSE
  /\ run = 0
  /\ run_from = Null

\* the operation is not a refinement: nothing to report
NoRefine ==
  /\ ret' = 0
  /\ visited' = << >>
  /\ loop_end' = << >>
  /\ monotone' = TRUE
  /\ again' = FALSE

\* the operation is not set_base_next: the row of calls ends
NoRun == run' = 0 /\ run_from' = Null

\* The outcome r of refine.  A failed ordering check aborts a build with
\* assertions and goes unnoticed in a build with NDEBUG; an edge of length
\* zero never leaves the while loop.
Outcome(r) ==
  \/ /\ ~r.monotone
     /\ pc' = "aborted"
     /\ UNCHANGED << vertices, edges_, area_, ne >>
     /\ NoRefine
  \/ /\ r.hung
     /\ pc' = "crashed"
     /\ UNCHANGED << vertices, edges_, area_, ne >>
     /\ NoRefine
  \/ /\ ~r.hung
     /\ pc' = "ready"
     /\ vertices' = r.vs
     /\ edges_' = r.es
     /\ area_' = r.area
     /\ ne' = r.ne
     /\ ret' = r.ret
     /\ visited' = r.visited
     /\ loop_end' = r.loop_end
     /\ monotone' = r.monotone
     /\ again' = (op \in { "Front", "refine" })

DoRefine(es, vs, n_e, sf) == \E r \in { refine(es, vs, n_e, sf) } : Outcome(r)

\* the constructor's loop over the boundary edges, from edge k on
RECURSIVE AddBoundaryEdges(_, _, _)
AddBoundaryEdge(st, e, k) ==
  [es |-> add_edge(st.es, k, e.v1, e.v2, e.marker),
   vs |-> on_boundary(mark_objects(is_fixed(st.vs, e.v1), e.v1, e.v2), e.v1, e.v2)]

AddBoundaryEdges(st, bes, k) ==
  IF k > Len(bes) THEN st
  ELSE AddBoundaryEdges(AddBoundaryEdge(st, bes[k], k), bes, k + 1)

Constructed(st, sf) ==
  /\ check_orientation(st.vs, st.es)
  /\ DoRefine(st.es, st.vs, Len(st.es) + 1, sf)

\* Front( domain, vertices )
Front ==
  /\ pc = "new"
  /\ Constructed(AddBoundaryEdges([es |-> << >>, vs |-> vertices],
                                  BoundaryEdges(domain.loops, Len(domain.loops)), 1),
                 domain.sf)
  /\ op' = "Front"
  /\ NoRun
  /\ UNCHANGED << domain, base_, arg >>

\* refine( domain, vertices )
Refine ==
  /\ pc = "ready"
  /\ DoRefine(edges_, vertices, ne, domain.sf)
  /\ op' = "refine"
  /\ NoRun
  /\ UNCHANGED << domain, base_, arg >>

\* base(): dereferences base_
GetBase ==
  /\ pc = "ready"
  /\ pc' = IF Live(base_) THEN "ready" ELSE "crashed"
  /\ op' = "base"
  /\ NoRefine
  /\ NoRun
  /\ UNCHANGED << domain, vertices, edges_, area_, base_, ne, arg >>

\* base( b ), b an edge of the front
SetBase(b) ==
  /\ pc = "ready"
  /\ base_' = b
  /\ op' = "set_base"
  /\ NoRefine
  /\ NoRun
  /\ UNCHANGED << pc, domain, vertices, edges_, area_, ne, arg >>

SetBaseFirst ==
  /\ pc = "ready"
  /\ base_' = set_base_first(edges_, base_)
  /\ op' = "set_base_first"
  /\ NoRefine
  /\ NoRun
  /\ UNCHANGED << pc, domain, vertices, edges_, area_, ne, arg >>

\* set_base_next(): base_->pos() of a null or dangling base_ is undefined
SetBaseNext ==
  /\ pc = "ready"
  /\ \/ /\ Len(edges_) < 1 \/ Live(base_)
        /\ base_' = set_base_next(edges_, base_)
        /\ pc' = "ready"
     \/ /\ ~(Len(edges_) < 1 \/ Live(base_))
        /\ \/ base_' \in Ids(edges_) \cup { base_ } /\ pc' = "ready"
           \/ base_' = base_ /\ pc' = "crashed"
  /\ op' = "set_base_next"
  /\ IF Len(edges_) < 1 \/ Len(edges_) > MaxRun \/ ~Live(base_)
     THEN NoRun
     ELSE IF op = "set_base_next" /\ run \in 1..(MaxRun - 1)
     THEN run' = run + 1 /\ run_from' = run_from
     ELSE run' = 1 /\ run_from' = base_
  /\ NoRefine
  /\ UNCHANGED << domain, vertices, edges_, area_, ne, arg >>

SortEdges(ascending) ==
  /\ pc = "ready"
  /\ \E sorted \in { sort_edges(vertices, ascending, edges_) } :
       /\ edges_' = sorted
       /\ base_' = set_base_first(sorted, base_)
  /\ op' = "sort_edges"
  /\ arg' = ascending
  /\ NoRefine
  /\ NoRun
  /\ UNCHANGED << pc, domain, vertices, area_, ne >>

Next ==
  \/ Front
  \/ Refine
  \/ GetBase
  \/ \E b \in Ids(edges_) : SetBase(b)
  \/ SetBaseFirst
  \/ SetBaseNext
  \/ \E ascending \in BOOLEAN : SortEdges(ascending)

Spec == Init /\ [][Next]_vars

(* ------------------------------------------------------------------ *)
(* The base reference                                                    *)
(* ------------------------------------------------------------------ *)
\* C1: base never dangles - in every state of a constructed front, base_ is
\* null or an edge that is in the edge container (in particular after a
\* refine that has removed the edge base_ referenced).
C1_BaseNeverDangles == pc = "ready" => (base_ = Null \/ Live(base_))

\* C2: immediately after the construction of a front with at least one edge,
\* base_ references the first edge of the edge sequence.
C2_BaseAfterConstruction ==
  (op = "Front" /\ pc = "ready" /\ Len(edges_) >= 1) => base_ = edges_[1].id

\* the edge that follows b in container order, the first edge after the last
Follower(es, b) == es[(IndexOf(es, b) % Len(es)) + 1].id

\* C3: set_base_next is a cyclic successor - a call leaves the edge sequence
\* alone; on an empty front it changes nothing; on a front whose base_ is a
\* live edge it moves base_ to the edge that follows it, the first after the
\* last; and the N-th call in a row on a front of N edges brings base_ back
\* to the edge the row started from.
C3_SetBaseNextCyclic ==
  [][ op' = "set_base_next" =>
        /\ edges_' = edges_
        /\ Len(edges_) = 0 => base_' = base_
        /\ (Len(edges_) >= 1 /\ Live(base_)) => base_' = Follower(edges_, base_)
        /\ (run' >= 1 /\ run' = Len(edges_)) => base_' = run_from' ]_vars

\* a row of N >= 4 calls on a front of N edges has come back to its start
C3_Witness ==
  /\ op = "set_base_next"
  /\ pc = "ready"
  /\ Len(edges_) >= 4
  /\ run = Len(edges_)
  /\ Live(base_)
  /\ base_ = run_from

(* ------------------------------------------------------------------ *)
(* Sorting                                                               *)
(* ------------------------------------------------------------------ *)
Lengths(vs, es) == AsSeq([ i \in 1..Len(es) |-> length(vs, es[i]) ])

\* the same edges, each with the same v1, v2 and marker
SameEdges(a, b) ==
  /\ Len(a) = Len(b)
  /\ { a[i] : i \in 1..Len(a) } = { b[i] : i \in 1..Len(b) }
  /\ Cardinality(Ids(b)) = Len(b)

OrderedByLength(ascending, vs, es) ==
  \A i \in 1..(Len(es) - 1) :
     IF ascending
     THEN ~RLt(length(vs, es[i + 1]), length(vs, es[i]))
     ELSE ~RLt(length(vs, es[i]), length(vs, es[i + 1]))

\* C4: sort_edges(ascending) permutes the edge sequence (same edges, same
\* v1, v2 and marker each, vertices untouched), leaves it ordered by length,
\* non-decreasing when ascending and non-increasing otherwise, and base_
\* references the first edge of the new order.
C4_SortEdges ==
  [][ op' = "sort_edges" =>
        /\ SameEdges(edges_, edges_')
        /\ vertices' = vertices
        /\ OrderedByLength(arg', vertices', edges_')
        /\ Len(edges_') >= 1 => base_' = edges_'[1].id ]_vars

\* the L-shaped front, of lengths 5, 1, 3, 2, 2, 3, sorted in ascending order,
\* base_ on the edge of length 1
C4_Witness ==
  /\ op = "sort_edges"
  /\ arg = TRUE
  /\ Lengths(vertices, edges_) = << R(1), R(2), R(2), R(3), R(3), R(5) >>
  /\ IdSeq(edges_) = << 2, 4, 5, 3, 6, 1 >>
  /\ base_ = 2

(* ------------------------------------------------------------------ *)
(* Refinement                                                            *)
(* ------------------------------------------------------------------ *)
\* a refine that returned, directly after another refine
SecondPass == op' = "refine" /\ again' /\ pc' = "ready"

\* C5 (as claimed): refine is idempotent for any front and size function - a
\* refine directly after a refine returns 0 and leaves the edge sequence
\* unchanged.
C5_RefineIdempotent ==
  [][ SecondPass => (ret' = 0 /\ edges_' = edges_) ]_vars

\* C5 (amended): under a constant size function, a refine directly after a
\* refine returns 0 and leaves the edge sequence and the vertices unchanged.
C5_RefineIdempotentConstant ==
  [][ (SecondPass /\ IsConstant(domain.sf)) =>
        (ret' = 0 /\ edges_' = edges_ /\ vertices' = vertices) ]_vars

NBoundaryEdges == Len(BoundaryEdges(domain.loops, Len(domain.loops)))

\* some edge has a length that is no integer: the cropped distance of its
\* boundary edge was not zero
Redistributed == \E i \in 1..Len(edges_) : length(vertices, edges_[i])[2] # 1

\* a second pass over a front whose first pass subdivided boundary edges and
\* distributed a cropped distance, under a constant size function
C5_Witness ==
  /\ op = "refine"
  /\ again
  /\ pc = "ready"
  /\ IsConstant(domain.sf)
  /\ ret = 0
  /\ Len(edges_) > NBoundaryEdges
  /\ Redistributed
  /\ Len(visited) = Len(edges_)

\* the boundary loop of a marker: markers are the numbers of the boundary edges
RECURSIVE LoopOf(_, _, _)
LoopOf(loops, marker, k) ==
  IF marker <= Offset(loops, k) + Len(loops[k]) THEN k ELSE LoopOf(loops, marker, k + 1)

\* every edge's v2 is the v1 of exactly one edge, of the same loop, and no
\* vertex has two outgoing edges
Closed(loops, es) ==
  \A i \in 1..Len(es) :
     /\ Cardinality({ j \in 1..Len(es) : es[j].v1 = es[i].v2 }) = 1
     /\ Cardinality({ j \in 1..Len(es) : es[j].v1 = es[i].v1 }) = 1
     /\ \A j \in 1..Len(es) :
          es[j].v1 = es[i].v2 =>
            LoopOf(loops, es[j].marker, 1) = LoopOf(loops, es[i].marker, 1)

\* the positions, in the container at the end of the loop, of the edges the
\* pass has removed
Marked(le, es) == { p \in 1..Len(le) : le[p].id \notin Ids(es) }

\* the position of the first sub-edge of the edge at p: sub-edges are spliced
\* in front of their edge, behind the edge visited before it
SubStart(le, vis, p) ==
  IF \E q \in 1..(p - 1) : le[q].id \in vis
  THEN 1 + CHOOSE q \in 1..(p - 1) :
             /\ le[q].id \in vis
             /\ \A r \in (q + 1)..(p - 1) : le[r].id \notin vis
  ELSE 1

Range(f) == { f[i] : i \in 1..Len(f) }

\* each sub-edge's v2 is the next sub-edge's v1
Linked(le, from, to) == \A k \in from..(to - 1) : le[k].v2 = le[k + 1].v1

\* C6: topological closure is preserved by refinement - the boundaries being
\* closed loops, after the constructor's refine and after every later refine
\* every edge's v2 is the v1 of exactly one edge, of the same loop, no vertex
\* has two outgoing edges, and every subdivided edge has been replaced by a
\* chain of at least two sub-edges, each one's v2 the next one's v1.
C6_ClosurePreserved ==
  pc = "ready" =>
    /\ Closed(domain.loops, edges_)
    /\ \A p \in Marked(loop_end, edges_) :
         /\ p - SubStart(loop_end, Range(visited), p) >= 2
         /\ Linked(loop_end, SubStart(loop_end, Range(visited), p), p - 1)

\* the front of the rectangle with a hole: two loops, eight new edges
C6_Witness ==
  /\ op = "Front"
  /\ pc = "ready"
  /\ Len(domain.loops) = 2
  /\ ret = 8
  /\ Cardinality(Marked(loop_end, edges_)) = 4
  /\ Closed(domain.loops, edges_)

\* p lies on the segment from a to b and is neither a nor b (the segments are
\* parallel to an axis)
Between(p, a, b) ==
  /\ RAdd(VLength(VSub(p, a)), VLength(VSub(p, b))) = VLength(VSub(b, a))
  /\ p # a
  /\ p # b

\* C7: endpoint preservation - a refine moves no vertex, and for every edge e
\* it subdivides, the sub-edges replacing e form a chain that starts at the
\* vertex e.v1 and ends at the vertex e.v2, whose inner vertices are new and
\* lie strictly between e.v1 and e.v2 on the segment.
C7_EndpointPreservation ==
  [][ (op' \in { "Front", "refine" } /\ pc' = "ready") =>
        /\ \A v \in 1..Len(vertices) : vertices'[v].xy = vertices[v].xy
        /\ \A p \in Marked(loop_end', edges_') :
             /\ loop_end'[SubStart(loop_end', Range(visited'), p)].v1 = loop_end'[p].v1
             /\ loop_end'[p - 1].v2 = loop_end'[p].v2
             /\ Linked(loop_end', SubStart(loop_end', Range(visited'), p), p - 1)
             /\ \A k \in SubStart(loop_end', Range(visited'), p)..(p - 2) :
                  /\ loop_end'[k].v2 > Len(vertices)
                  /\ Between(vertices'[loop_end'[k].v2].xy,
                             vertices'[loop_end'[p].v1].xy,
                             vertices'[loop_end'[p].v2].xy) ]_vars

\* the length of boundary edge k of the domain
BoundaryLength(k) ==
  length(BoundaryVertices(domain.loops, Len(domain.loops)),
         BoundaryEdges(domain.loops, Len(domain.loops))[k])

\* the positions of the edges that stem from boundary edge k
Descendants(k) == { i \in 1..Len(edges_) : edges_[i].marker = k }

\* C8: with a constant size function rho, the constructor's refine replaces a
\* boundary edge of length n * rho, n >= 2, by exactly n sub-edges of length
\* rho each and leaves an edge of length rho as it is; the square of side 10
\* with constant size 2 is refined into 20 edges of length 2, five per side,
\* and refine returns 16.
C8_ConstantSize ==
  (op = "Front" /\ pc = "ready" /\ IsConstant(domain.sf)) =>
    /\ \A k \in 1..NBoundaryEdges :
         ( BoundaryLength(k)[2] = 1 /\ BoundaryLength(k)[1] % domain.sf.rout = 0 ) =>
           /\ Cardinality(Descendants(k)) = BoundaryLength(k)[1] \div domain.sf.rout
           /\ \A i \in Descendants(k) :
                length(vertices, edges_[i]) = R(domain.sf.rout)
           /\ BoundaryLength(k) = R(domain.sf.rout) =>
                \A i \in Descendants(k) :
                   edges_[i] =
                     [id |-> k, marker |-> k,
                      v1 |-> BoundaryEdges(domain.loops, Len(domain.loops))[k].v1,
                      v2 |-> BoundaryEdges(domain.loops, Len(domain.loops))[k].v2]
    /\ domain = [loops |-> << Rect(10, 10) >>, sf |-> Fine] =>
         /\ Len(edges_) = 20
         /\ ret = 16
         /\ \A k \in 1..4 : Cardinality(Descendants(k)) = 5

\* the front of the square of side 10 under the constant size 2
C8_Witness ==
  /\ op = "Front"
  /\ pc = "ready"
  /\ domain = [loops |-> << Rect(10, 10) >>, sf |-> Fine]
  /\ Len(edges_) = 20
  /\ ret = 16
  /\ \A i \in 1..Len(edges_) : length(vertices, edges_[i]) = R(2)

Snapshot ==
  IF pc = "new" THEN [ k \in 1..NBoundaryEdges |-> k ] ELSE IdSeq(edges_)

\* C10: snapshot semantics of a pass - the loop visits exactly the edges that
\* are in the front when the pass starts, each once, in order, so no sub-edge
\* inserted during the pass is visited; the sub-edges are spliced directly in
\* front of the edge they replace; and every edge of the snapshot is still in
\* the container when the loop ends, the subdivided ones being removed after.
C10_SnapshotSemantics ==
  [][ (op' \in { "Front", "refine" } /\ pc' = "ready") =>
        /\ visited' = Snapshot
        /\ \A i \in 1..Len(visited') : visited'[i] \in Ids(loop_end')
        /\ \A p \in 1..Len(loop_end') :
             loop_end'[p].id \notin Range(Snapshot) =>
               /\ loop_end'[p] \in Range(edges_')
               /\ \E q \in Marked(loop_end', edges_') :
                    SubStart(loop_end', Range(visited'), q) <= p /\ p < q
        /\ Ids(edges_') = Ids(loop_end') \ { loop_end'[p].id : p \in Marked(loop_end', edges_') }
        /\ \A p \in Marked(loop_end', edges_') : loop_end'[p].id \in Range(Snapshot) ]_vars

\* a refine, after the constructor's, that has subdivided edges
C10_Witness ==
  /\ op = "refine"
  /\ pc = "ready"
  /\ ret >= 2
  /\ Len(loop_end) >= Len(visited) + 4
  /\ Cardinality(Range(visited)) = Len(visited)

====
